---- MODULE Spec2Model ----
(***************************************************************************)
(* Model of BytescaleFileProviderService                                   *)
(* (src/src/providers/bytescale/service.ts).                               *)
(*                                                                         *)
(* JavaScript strings are sequences of characters, `undefined` is the      *)
(* sentinel Undefined.  The Bytescale SDK (UploadManager, FileApi,         *)
(* UrlBuilder) is the environment: every call the service makes to it is   *)
(* recorded in `calls`, and the way it settles is a nondeterministic       *)
(* choice.  The host makes one invocation at a time.                       *)
(***************************************************************************)
EXTENDS Integers, Sequences, FiniteSets, TLC

\* ---------------------------------------------------------------- bounds
MaxPrefixLen == 3
MaxBatch == 2
MaxChunks == 1

\* --------------------------------------------------------------- strings
Undefined == <<"undefined">>

Chars == {"/", "m"}

RECURSIVE StringsUpTo(_)
StringsUpTo(n) ==
  IF n = 0 THEN {<<>>}
  ELSE LET shorter == StringsUpTo(n - 1)
       IN shorter \cup {Append(s, c) : s \in {t \in shorter : Len(t) = n - 1}, c \in Chars}

\* `!v` of JavaScript for a value that is a string or undefined
Falsy(v) == v = Undefined \/ v = <<>>

startsWith(s, c) == Len(s) >= 1 /\ s[1] = c

endsWith(s, c) == Len(s) >= 1 /\ s[Len(s)] = c

\* s.slice(0, -1)
sliceDropLast(s) == SubSeq(s, 1, Len(s) - 1)

DefaultFolder == <<"/", "u", "p", "l", "o", "a", "d", "s">>

Media == <<"m", "e", "d", "i", "a">>

ExamplePrefixes ==
  {Media, <<"/">> \o Media \o <<"/">>, Media \o <<"/", "/">>}

Prefixes == {Undefined} \cup StringsUpTo(MaxPrefixLen) \cup ExamplePrefixes

Credentials == {Undefined, <<>>, <<"k">>}

Filenames == {<<"a.png">>, <<"b.txt">>}

FileKeys == {<<"/", "x">>, <<"/", "y">>}

Errors == {"E1", "E2"}


\* ----------------------------------------------------------------- state
VARIABLES
  options,   \* options_: [apiKey, accountId, prefix]
  clients,   \* the SDK clients the constructor has built
  pc,        \* where the current invocation stands
  op,        \* the operation of the current invocation
  request,   \* its argument
  calls,     \* the remote-client calls it has issued, in order
  reply,     \* how its last remote call settled (single-item operations)
  logs,      \* what it wrote to logger_, in order
  outcome,   \* what the caller received: nothing yet, a value, or an error
  items,     \* delete: per entry, the remote call's and the mapped promise's state
  stream     \* getUploadStream: the PassThrough and the upload promise

vars == <<options, clients, pc, op, request, calls, reply, logs, outcome, items, stream>>

NoOutcome == [kind |-> "none"]

NoReply == [kind |-> "none"]

NoStream == [sink |-> "none", written |-> 0, consumed |-> 0, promise |-> [state |-> "none"]]

NoRequest == [kind |-> "none"]

\* ----------------------------------------------------------- constructor
\* validateOptions: the name of the missing option, or "ok"
validateOptions(o) ==
  IF Falsy(o.apiKey) THEN "apiKey"
  ELSE IF Falsy(o.accountId) THEN "accountId"
  ELSE "ok"

\* the constructor builds the clients before it validates
constructBeforeValidate(o) ==
  [threw |-> validateOptions(o) # "ok", clients |-> {"uploadManager", "fileApi"}]

\* the constructor body after super(): validation, then the two SDK clients
construct(o) ==
  IF validateOptions(o) # "ok"
  THEN [threw |-> TRUE, clients |-> {}]
  ELSE [threw |-> FALSE, clients |-> {"uploadManager", "fileApi"}]

Init ==
  /\ options \in [apiKey : Credentials, accountId : Credentials, prefix : Prefixes]
  /\ clients = {}
  /\ pc = "new"
  /\ op = "none"
  /\ request = NoRequest
  /\ calls = <<>>
  /\ reply = NoReply
  /\ logs = <<>>
  /\ outcome = NoOutcome
  /\ items = <<>>
  /\ stream = NoStream

Constructor ==
  /\ pc = "new"
  /\ LET c == construct(options)
     IN /\ clients' = c.clients
        /\ pc' = IF c.threw THEN "invalid" ELSE "idle"
        /\ outcome' = IF c.threw
                      THEN [kind |-> "throw", error |-> "INVALID_DATA"]
                      ELSE NoOutcome
  /\ op' = "constructor"
  /\ UNCHANGED <<options, request, calls, reply, logs, items, stream>>

\* ---------------------------------------------------------- path and url
getUploadPath(prefix) ==
  LET f0 == IF Falsy(prefix) THEN DefaultFolder ELSE prefix
      f1 == IF ~startsWith(f0, "/") THEN <<"/">> \o f0 ELSE f0
  IN IF Len(f1) > 1 /\ endsWith(f1, "/") THEN sliceDropLast(f1) ELSE f1

\* Bytescale.UrlBuilder.url({accountId, filePath}) when it does not throw
UrlBuilderUrl(accountId, filePath) ==
  <<"https://upcdn.io/">> \o accountId \o <<"/raw">> \o filePath

\* the file paths the remote service may assign to an upload into folderPath: the
\* service is given no fileName, so it names the file itself
RemoteFilePaths(folderPath, originalFileName) ==
  {folderPath \o <<"/">> \o originalFileName,
   folderPath \o <<"/", "4821-">> \o originalFileName}

RemoteUploadResults(accountId, folderPath, originalFileName) ==
  {[fileUrl |-> UrlBuilderUrl(accountId, p), filePath |-> p] :
     p \in RemoteFilePaths(folderPath, originalFileName)}

\* an upload of a stream ends well only once it has read the stream to its end;
\* an upload of bytes needs nothing from the caller
RemoteMayFinish(call) ==
  call.data # "pass" \/ (stream.sink = "closed" /\ stream.consumed = stream.written)

\* ---------------------------------------------------------------- upload
UploadParams(file, data) ==
  [api |-> "upload", data |-> data, mime |-> file.mimeType,
   originalFileName |-> file.filename, folderPath |-> getUploadPath(options.prefix)]

UploadRequests ==
  [kind : {"file"}, content : {"bytes"}, mimeType : {"image/png"}, filename : Filenames]

uploadResultSwapped(result) == [url |-> result.filePath, key |-> result.fileUrl]

\* lines 101-104
uploadResult(result) == [url |-> result.fileUrl, key |-> result.filePath]

uploadCatchSwallow(file, error) ==
  [log |-> [level |-> "error",
            msg |-> <<"Bytescale upload failed for ", file.filename, ": ", error>>],
   outcome |-> [kind |-> "return", value |-> "undefined"]]

\* lines 105-108
uploadCatch(file, error) ==
  [log |-> [level |-> "error",
            msg |-> <<"Bytescale upload failed for ", file.filename, ": ", error>>],
   outcome |-> [kind |-> "throw", error |-> error]]

\* upload, up to its await: the one remote call
Upload ==
  /\ pc = "idle"
  /\ \E file \in UploadRequests :
       /\ request' = file
       /\ calls' = Append(calls, UploadParams(file, file.content))
  /\ pc' = "upload"
  /\ op' = "upload"
  /\ UNCHANGED <<options, clients, reply, logs, outcome, items, stream>>

UploadResolved ==
  /\ pc = "upload"
  /\ RemoteMayFinish(calls[1])
  /\ \E result \in RemoteUploadResults(options.accountId, calls[1].folderPath,
                                       calls[1].originalFileName) :
       /\ reply' = [kind |-> "value", value |-> result]
       /\ outcome' = [kind |-> "return", value |-> uploadResult(result)]
  /\ pc' = "done"
  /\ UNCHANGED <<options, clients, op, request, calls, logs, items, stream>>

UploadRejected ==
  /\ pc = "upload"
  /\ \E error \in Errors :
       /\ reply' = [kind |-> "error", error |-> error]
       /\ logs' = Append(logs, uploadCatch(request, error).log)
       /\ outcome' = uploadCatch(request, error).outcome
  /\ pc' = "done"
  /\ UNCHANGED <<options, clients, op, request, calls, items, stream>>

\* ---------------------------------------------------------------- delete
DeleteFiles == [fileKey : FileKeys]

RECURSIVE ListsUpTo(_)
ListsUpTo(n) ==
  IF n = 0 THEN {<<>>}
  ELSE LET shorter == ListsUpTo(n - 1)
       IN shorter \cup {Append(l, f) : l \in {t \in shorter : Len(t) = n - 1}, f \in DeleteFiles}

\* line 115
fileArray(files) == IF files.isArray THEN files.value ELSE <<files.value>>

DeleteFileParams(file) ==
  [api |-> "deleteFile", accountId |-> options.accountId, filePath |-> file.fileKey]

\* a sequential loop: only the first entry's call is issued before the first await
deleteIssueFirstOnly(files) ==
  [i \in 1..(IF Len(files) = 0 THEN 0 ELSE 1) |-> DeleteFileParams(files[i])]

\* fileArray.map(async ...): every mapped function runs to its await, in order
deleteIssue(files) == [i \in 1..Len(files) |-> DeleteFileParams(files[i])]

deleteCatchRethrow(file, error) ==
  [logs |-> <<[level |-> "warn",
               msg |-> <<"Bytescale delete failed for ", file.fileKey, ": ", error>>]>>,
   promise |-> "rejected"]

\* lines 125-128: the mapped function logs and ends normally
deleteCatch(file, error) ==
  [logs |-> <<[level |-> "warn",
               msg |-> <<"Bytescale delete failed for ", file.fileKey, ": ", error>>]>>,
   promise |-> "fulfilled"]

PromiseStates(its) == [i \in 1..Len(its) |-> its[i].promise]

\* Promise.all: rejected once one is, fulfilled once all are
PromiseAll(ps) ==
  IF \E i \in 1..Len(ps) : ps[i] = "rejected" THEN "rejected"
  ELSE IF \A i \in 1..Len(ps) : ps[i] = "fulfilled" THEN "fulfilled"
  ELSE "pending"

\* delete, up to its await: the batch is normalised and every deleteFile call issued
DeleteCall(files) ==
  /\ request' = files
  /\ calls' = deleteIssue(fileArray(files))
  /\ items' = [i \in 1..Len(fileArray(files)) |->
                 [remote |-> "pending", promise |-> "pending", error |-> "none"]]
  /\ pc' = "delete"
  /\ op' = "delete"
  /\ UNCHANGED <<options, clients, reply, logs, outcome, stream>>

\* delete called with a single entry
DeleteOne ==
  /\ pc = "idle"
  /\ \E f \in DeleteFiles : DeleteCall([isArray |-> FALSE, value |-> f])

\* delete called with a list of 0..MaxBatch entries
DeleteMany ==
  /\ pc = "idle"
  /\ \E l \in ListsUpTo(MaxBatch) : DeleteCall([isArray |-> TRUE, value |-> l])

\* one deleteFile call succeeds; calls settle in any order
DeleteFileResolved ==
  /\ pc = "delete"
  /\ \E i \in 1..Len(items) :
       /\ i <= Len(calls)
       /\ items[i].remote = "pending"
       /\ items' = [items EXCEPT ![i] = [remote |-> "ok", promise |-> "fulfilled",
                                         error |-> "none"]]
  /\ UNCHANGED <<options, clients, pc, op, request, calls, reply, logs, outcome, stream>>

\* one deleteFile call fails
DeleteFileRejected ==
  /\ pc = "delete"
  /\ \E i \in 1..Len(items), error \in Errors :
       /\ i <= Len(calls)
       /\ items[i].remote = "pending"
       /\ LET c == deleteCatch(fileArray(request)[i], error)
          IN /\ items' = [items EXCEPT ![i] = [remote |-> "failed", promise |-> c.promise,
                                               error |-> error]]
             /\ logs' = logs \o c.logs
  /\ UNCHANGED <<options, clients, pc, op, request, calls, reply, outcome, stream>>

\* the await of Promise.all ends
DeleteSettled ==
  /\ pc = "delete"
  /\ LET all == PromiseAll(PromiseStates(items))
     IN /\ all # "pending"
        /\ outcome' =
             IF all = "fulfilled" THEN [kind |-> "return", value |-> "undefined"]
             ELSE [kind |-> "throw",
                   error |-> items[CHOOSE i \in 1..Len(items) :
                                     items[i].promise = "rejected"].error]
  /\ pc' = "done"
  /\ UNCHANGED <<options, clients, op, request, calls, reply, logs, items, stream>>

\* ----------------------------------------------- getPresignedDownloadUrl
GetFileRequests == [fileKey : FileKeys]

\* lines 142-145
urlCatch(error) ==
  [log |-> [level |-> "error", msg |-> <<"Bytescale URL gen failed: ", error>>],
   outcome |-> [kind |-> "throw", error |-> error]]

\* UrlBuilder.url is synchronous: the handler runs to its end in one step
GetPresignedDownloadUrl ==
  /\ pc = "idle"
  /\ \E fileData \in GetFileRequests :
       /\ request' = fileData
       /\ calls' = <<[api |-> "UrlBuilder.url", accountId |-> options.accountId,
                      filePath |-> fileData.fileKey]>>
       /\ \/ /\ reply' = [kind |-> "value",
                          value |-> UrlBuilderUrl(options.accountId, fileData.fileKey)]
             /\ outcome' = [kind |-> "return",
                            value |-> UrlBuilderUrl(options.accountId, fileData.fileKey)]
             /\ logs' = logs
          \/ \E error \in Errors :
               /\ reply' = [kind |-> "error", error |-> error]
               /\ logs' = Append(logs, urlCatch(error).log)
               /\ outcome' = urlCatch(error).outcome
  /\ pc' = "done"
  /\ op' = "getPresignedDownloadUrl"
  /\ UNCHANGED <<options, clients, items, stream>>

\* ------------------------------------------- getDownloadStream, getAsBuffer
DownloadFileParams(fileData) ==
  [api |-> "downloadFile", accountId |-> options.accountId, filePath |-> fileData.fileKey]

\* the bytes the remote service holds under a key
RemoteContent(fileKey) == <<"bytes of ", fileKey>>

\* lines 203-206
downloadStreamCatch(error) ==
  [log |-> [level |-> "error", msg |-> <<"Bytescale download stream failed: ", error>>],
   outcome |-> [kind |-> "throw", error |-> error]]

\* lines 222-225
bufferCatch(error) ==
  [log |-> [level |-> "error", msg |-> <<"Bytescale buffer download failed: ", error>>],
   outcome |-> [kind |-> "throw", error |-> error]]

GetDownloadStream ==
  /\ pc = "idle"
  /\ \E fileData \in GetFileRequests :
       /\ request' = fileData
       /\ calls' = <<DownloadFileParams(fileData)>>
  /\ pc' = "download"
  /\ op' = "getDownloadStream"
  /\ UNCHANGED <<options, clients, reply, logs, outcome, items, stream>>

\* downloadFile resolves: response.raw.body is handed to the caller as it is
DownloadResolved ==
  /\ pc = "download"
  /\ reply' = [kind |-> "value", value |-> RemoteContent(calls[1].filePath)]
  /\ outcome' = [kind |-> "return",
                 value |-> [readable |-> RemoteContent(calls[1].filePath)]]
  /\ pc' = "done"
  /\ UNCHANGED <<options, clients, op, request, calls, logs, items, stream>>

DownloadRejected ==
  /\ pc = "download"
  /\ \E error \in Errors :
       /\ reply' = [kind |-> "error", error |-> error]
       /\ logs' = Append(logs, downloadStreamCatch(error).log)
       /\ outcome' = downloadStreamCatch(error).outcome
  /\ pc' = "done"
  /\ UNCHANGED <<options, clients, op, request, calls, items, stream>>

GetAsBuffer ==
  /\ pc = "idle"
  /\ \E fileData \in GetFileRequests :
       /\ request' = fileData
       /\ calls' = <<DownloadFileParams(fileData)>>
  /\ pc' = "buffer"
  /\ op' = "getAsBuffer"
  /\ UNCHANGED <<options, clients, reply, logs, outcome, items, stream>>

\* downloadFile resolves: the handler goes on to await response.raw.buffer()
BufferDownloadResolved ==
  /\ pc = "buffer"
  /\ calls' = Append(calls, [api |-> "raw.buffer", filePath |-> calls[1].filePath])
  /\ pc' = "bufferBody"
  /\ UNCHANGED <<options, clients, op, request, reply, logs, outcome, items, stream>>

\* response.raw.buffer() resolves
BufferBodyResolved ==
  /\ pc = "bufferBody"
  /\ reply' = [kind |-> "value", value |-> RemoteContent(calls[1].filePath)]
  /\ outcome' = [kind |-> "return",
                 value |-> [buffer |-> RemoteContent(calls[1].filePath)]]
  /\ pc' = "done"
  /\ UNCHANGED <<options, clients, op, request, calls, logs, items, stream>>

\* downloadFile, or the materialisation of its body, fails
BufferRejected ==
  /\ pc \in {"buffer", "bufferBody"}
  /\ \E error \in Errors :
       /\ reply' = [kind |-> "error", error |-> error]
       /\ logs' = Append(logs, bufferCatch(error).log)
       /\ outcome' = bufferCatch(error).outcome
  /\ pc' = "done"
  /\ UNCHANGED <<options, clients, op, request, calls, items, stream>>

\* ------------------------------------------------------- getUploadStream
UploadStreamRequests == [kind : {"stream"}, mimeType : {"image/png"}, filename : Filenames]

\* the upload is handed a buffer instead of the PassThrough
UploadStreamParamsBuffered(fileData) ==
  [api |-> "upload", data |-> "bytes", mime |-> fileData.mimeType,
   originalFileName |-> fileData.filename, folderPath |-> getUploadPath(options.prefix)]

\* lines 169-174: the read end of the PassThrough is the upload's data
UploadStreamParams(fileData) ==
  [api |-> "upload", data |-> "pass", mime |-> fileData.mimeType,
   originalFileName |-> fileData.filename, folderPath |-> getUploadPath(options.prefix)]

\* line 162
expectedKey(fileData) == getUploadPath(options.prefix) \o <<"/">> \o fileData.filename

\* lines 163-166
expectedUrl(fileData) == UrlBuilderUrl(options.accountId, expectedKey(fileData))

\* lines 179-184
uploadStreamHandle(fileData) ==
  [writeStream |-> "pass", promise |-> "uploadPromise",
   url |-> expectedUrl(fileData), fileKey |-> expectedKey(fileData)]

\* lines 174-177: the .then of the upload promise
uploadStreamResult(result) == [url |-> result.fileUrl, key |-> result.filePath]

\* lines 169-177: the promise chain has no rejection handler, and the try block has
\* ended by the time the upload fails
uploadStreamRejected(error) ==
  [logs |-> <<>>, promise |-> [state |-> "rejected", error |-> error]]

\* lines 185-188: reached by what throws before the handle is returned
uploadStreamCatch(error) ==
  [log |-> [level |-> "error", msg |-> <<"Bytescale upload stream failed: ", error>>],
   outcome |-> [kind |-> "throw", error |-> error]]

\* the whole handler: PassThrough, predicted key and url, upload started, handle returned
GetUploadStream ==
  /\ pc = "idle"
  /\ \E fileData \in UploadStreamRequests :
       /\ request' = fileData
       /\ calls' = <<UploadStreamParams(fileData)>>
       /\ outcome' = [kind |-> "return", value |-> uploadStreamHandle(fileData)]
  /\ stream' = [sink |-> "open", written |-> 0, consumed |-> 0,
                promise |-> [state |-> "pending"]]
  /\ pc' = "stream"
  /\ op' = "getUploadStream"
  /\ UNCHANGED <<options, clients, reply, logs, items>>

\* UrlBuilder.url throws while the key is predicted: nothing is uploaded
GetUploadStreamThrows ==
  /\ pc = "idle"
  /\ \E fileData \in UploadStreamRequests, error \in Errors :
       /\ request' = fileData
       /\ reply' = [kind |-> "error", error |-> error]
       /\ logs' = Append(logs, uploadStreamCatch(error).log)
       /\ outcome' = uploadStreamCatch(error).outcome
  /\ pc' = "done"
  /\ op' = "getUploadStream"
  /\ UNCHANGED <<options, clients, calls, items, stream>>

\* the caller writes a chunk into the sink
StreamWrite ==
  /\ pc = "stream"
  /\ stream.sink = "open"
  /\ stream.written < MaxChunks
  /\ stream' = [stream EXCEPT !.written = @ + 1]
  /\ UNCHANGED <<options, clients, pc, op, request, calls, reply, logs, outcome, items>>

\* the caller ends the sink
StreamEnd ==
  /\ pc = "stream"
  /\ stream.sink = "open"
  /\ stream' = [stream EXCEPT !.sink = "closed"]
  /\ UNCHANGED <<options, clients, pc, op, request, calls, reply, logs, outcome, items>>

\* the remote client reads a chunk from the read end
StreamRead ==
  /\ pc = "stream"
  /\ stream.consumed < stream.written
  /\ stream' = [stream EXCEPT !.consumed = @ + 1]
  /\ UNCHANGED <<options, clients, pc, op, request, calls, reply, logs, outcome, items>>

\* the remote upload ends well
StreamUploadResolved ==
  /\ pc = "stream"
  /\ RemoteMayFinish(calls[1])
  /\ \E result \in RemoteUploadResults(options.accountId, calls[1].folderPath,
                                       calls[1].originalFileName) :
       /\ reply' = [kind |-> "value", value |-> result]
       /\ stream' = [stream EXCEPT
                       !.promise = [state |-> "resolved",
                                    value |-> uploadStreamResult(result)]]
  /\ pc' = "done"
  /\ UNCHANGED <<options, clients, op, request, calls, logs, outcome, items>>

\* the remote upload fails, at any moment after it was started
StreamUploadRejected ==
  /\ pc = "stream"
  /\ \E error \in Errors :
       /\ reply' = [kind |-> "error", error |-> error]
       /\ logs' = logs \o uploadStreamRejected(error).logs
       /\ stream' = [stream EXCEPT !.promise = uploadStreamRejected(error).promise]
  /\ pc' = "done"
  /\ UNCHANGED <<options, clients, op, request, calls, outcome, items>>

\* the host starts its next invocation afresh: the adapter keeps nothing
NextInvocation ==
  /\ pc = "done"
  /\ pc' = "idle"
  /\ op' = "none"
  /\ request' = NoRequest
  /\ calls' = <<>>
  /\ reply' = NoReply
  /\ logs' = <<>>
  /\ outcome' = NoOutcome
  /\ items' = <<>>
  /\ stream' = NoStream
  /\ UNCHANGED <<options, clients>>

Next ==
  \/ Constructor
  \/ Upload
  \/ UploadResolved
  \/ UploadRejected
  \/ DeleteOne
  \/ DeleteMany
  \/ DeleteFileResolved
  \/ DeleteFileRejected
  \/ DeleteSettled
  \/ GetPresignedDownloadUrl
  \/ GetDownloadStream
  \/ DownloadResolved
  \/ DownloadRejected
  \/ GetAsBuffer
  \/ BufferDownloadResolved
  \/ BufferBodyResolved
  \/ BufferRejected
  \/ GetUploadStream
  \/ GetUploadStreamThrows
  \/ StreamWrite
  \/ StreamEnd
  \/ StreamRead
  \/ StreamUploadResolved
  \/ StreamUploadRejected
  \/ NextInvocation

Spec == Init /\ [][Next]_vars

\* ------------------------------------------------------------ properties
Failed == {i \in 1..Len(items) : items[i].remote = "failed"}

WarnsNaming(k) == {i \in 1..Len(logs) : logs[i].level = "warn" /\ logs[i].msg[2] = k}

FailedWithKey(k) == {i \in Failed : fileArray(request)[i].fileKey = k}

\* C1: a delete never raises to its caller, whichever of its entries fail: once every
\* remote call has settled the awaited aggregate is fulfilled, the call returns
\* normally, and the log holds one warning naming the fileKey per failed entry and
\* nothing else.
C1_DeleteAbsorbsFailures ==
  op = "delete" =>
    /\ \A k \in FileKeys : Cardinality(WarnsNaming(k)) = Cardinality(FailedWithKey(k))
    /\ Len(logs) = Cardinality(Failed)
    /\ (\A i \in 1..Len(items) : items[i].remote # "pending")
         => PromiseAll(PromiseStates(items)) = "fulfilled"
    /\ pc = "done" => outcome.kind = "return"

\* a two-entry batch has ended with its first entry failed and its second deleted
C1_Witness ==
  /\ op = "delete"
  /\ pc = "done"
  /\ Len(items) = 2
  /\ items[1].remote = "failed"
  /\ items[2].remote = "ok"

\* C2: once the upload promise of getUploadStream is resolved, the fileKey and url of
\* the handle equal the key and url the promise resolved to.
C2_PredictedEqualsFinal ==
  stream.promise.state = "resolved" =>
    /\ outcome.value.fileKey = stream.promise.value.key
    /\ outcome.value.url = stream.promise.value.url

\* C3: once the upload promise of getUploadStream is rejected after the handle was
\* returned, the promise carries the remote error and an error event for it is logged.
C3_MidStreamFailureLogged ==
  stream.promise.state = "rejected" =>
    /\ stream.promise.error = reply.error
    /\ \E i \in 1..Len(logs) :
         logs[i].level = "error" /\ logs[i].msg[Len(logs[i].msg)] = reply.error

SingleItemOps == {"upload", "getDownloadStream", "getAsBuffer", "getPresignedDownloadUrl"}

\* C4: when upload, getDownloadStream, getAsBuffer or getPresignedDownloadUrl ends
\* after the remote client raised an error, that error is logged exactly once and the
\* caller receives that same error; nothing is logged otherwise.
C4_ErrorsLoggedOnceAndRethrown ==
  op \in SingleItemOps =>
    /\ pc # "done" => logs = <<>>
    /\ (pc = "done" /\ reply.kind = "error") =>
         /\ outcome.kind = "throw"
         /\ outcome.error = reply.error
         /\ Len(logs) = 1
         /\ logs[1].level = "error"
         /\ logs[1].msg[Len(logs[1].msg)] = reply.error
    /\ (pc = "done" /\ reply.kind # "error") => (outcome.kind = "return" /\ logs = <<>>)

\* getAsBuffer has failed while the downloaded body was materialised
C4_Witness ==
  /\ op = "getAsBuffer"
  /\ pc = "done"
  /\ Len(calls) = 2
  /\ reply.kind = "error"
  /\ outcome.kind = "throw"

\* C5: construction succeeds, with both clients built, exactly when apiKey and
\* accountId are both non-empty; otherwise it fails with INVALID_DATA, and then no
\* client has been built and no remote call made.
C5_ValidationBeforeClients ==
  /\ pc = "new" => clients = {}
  /\ pc # "new" =>
       IF options.apiKey # Undefined /\ options.apiKey # <<>>
          /\ options.accountId # Undefined /\ options.accountId # <<>>
       THEN pc # "invalid" /\ clients = {"uploadManager", "fileApi"}
       ELSE /\ pc = "invalid"
            /\ outcome.kind = "throw"
            /\ outcome.error = "INVALID_DATA"
            /\ clients = {}
            /\ calls = <<>>

\* construction has failed for an empty accountId beside a good apiKey
C5_Witness ==
  /\ pc = "invalid"
  /\ options.apiKey = <<"k">>
  /\ options.accountId = <<>>

WellFormedFolder(p) == startsWith(p, "/") /\ (endsWith(p, "/") => p = <<"/">>)

\* C6: the folder path of every upload call starts with "/" and ends with "/" only
\* when it is "/"; absent and "" give "/uploads", "media" gives "/media", "/media/"
\* gives "/media" and "/" gives "/".
C6_NormalizedFolderForm ==
  /\ \A i \in 1..Len(calls) :
       calls[i].api = "upload" => WellFormedFolder(calls[i].folderPath)
  /\ getUploadPath(Undefined) = DefaultFolder
  /\ getUploadPath(<<>>) = DefaultFolder
  /\ getUploadPath(Media) = <<"/">> \o Media
  /\ getUploadPath(<<"/">> \o Media \o <<"/">>) = <<"/">> \o Media
  /\ getUploadPath(<<"/">>) = <<"/">>

\* C7: a buffered upload makes exactly one remote upload call, with the request's
\* content, mime type and filename and the normalized folder path, and when that
\* call returns {fileUrl: X, filePath: Y} the caller receives {url: X, key: Y}.
C7_UploadRoundTrip ==
  op = "upload" =>
    /\ Len(calls) = 1
    /\ calls[1].api = "upload"
    /\ calls[1].data = request.content
    /\ calls[1].mime = request.mimeType
    /\ calls[1].originalFileName = request.filename
    /\ calls[1].folderPath = getUploadPath(options.prefix)
    /\ (pc = "done" /\ reply.kind = "value") =>
         /\ outcome.kind = "return"
         /\ outcome.value.url = reply.value.fileUrl
         /\ outcome.value.key = reply.value.filePath

\* an upload has returned a key that the remote service chose
C7_Witness ==
  /\ op = "upload"
  /\ pc = "done"
  /\ reply.kind = "value"
  /\ outcome.kind = "return"
  /\ outcome.value.key # calls[1].folderPath \o <<"/">> \o request.filename

C9_DeleteFanOut ==
  op = "delete" =>
    /\ Len(calls) = (IF request.isArray THEN Len(request.value) ELSE 1)
    /\ \A i \in 1..Len(calls) :
         /\ calls[i].api = "deleteFile"
         /\ calls[i].accountId = options.accountId
         /\ calls[i].filePath =
              (IF request.isArray THEN request.value[i].fileKey ELSE request.value.fileKey)
    /\ pc = "done" =>
         /\ Len(items) = Len(calls)
         /\ \A i \in 1..Len(items) : items[i].remote # "pending"

\* a two-entry batch has ended with both entries failed, the second one first
C9_Witness ==
  /\ op = "delete"
  /\ pc = "done"
  /\ Len(items) = 2
  /\ items[1].remote = "failed"
  /\ items[2].remote = "failed"
  /\ request.value[1].fileKey # request.value[2].fileKey
  /\ logs[1].msg[2] = request.value[2].fileKey

\* C10: the folder path of every upload call is a fixed point of the normalization.
C10_NormalizationIdempotent ==
  \A i \in 1..Len(calls) :
    calls[i].api = "upload" => getUploadPath(calls[i].folderPath) = calls[i].folderPath
====
